---- MODULE Spec2Model ----
(***************************************************************************)
(* Model of scripts/test.py (the test-harness orchestrator), together with *)
(* the ProgressBar class of scripts/progress_bar.py that it drives.        *)
(*                                                                         *)
(* Strings are sequences of one-character strings, paths are sequences of  *)
(* path components relative to PROJECT_LOCATION.                           *)
(***************************************************************************)
EXTENDS Integers, Sequences, FiniteSets, TLC

(***************************************************************************)
(* Bounds of the model.                                                    *)
(***************************************************************************)
\* largest number of drivers a discovery may return
MaxTests == 2
\* largest number of write calls on one JUnitXMLFile
MaxWrites == 3

(***************************************************************************)
(* Strings.                                                                *)
(***************************************************************************)
\* code point of a character (Python compares str by code point)
Ord(c) ==
    CASE c = "\"" -> 34
      [] c = "&" -> 38
      [] c = "." -> 46
      [] c = "/" -> 47
      [] c = "<" -> 60
      [] c = ">" -> 62
      [] c = "_" -> 95
      [] c = "a" -> 97
      [] c = "b" -> 98
      [] c = "c" -> 99
      [] c = "d" -> 100
      [] c = "e" -> 101
      [] c = "i" -> 105
      [] c = "r" -> 114
      [] c = "t" -> 116
      [] c = "v" -> 118
      [] c = "w" -> 119
      [] c = "x" -> 120

RECURSIVE StrLess(_, _)
\* s < t for two str values
StrLess(s, t) ==
    IF s = <<>> THEN t # <<>>
    ELSE IF t = <<>> THEN FALSE
    ELSE IF Head(s) = Head(t) THEN StrLess(Tail(s), Tail(t))
    ELSE Ord(Head(s)) < Ord(Head(t))

\* s.startswith(prefix)
StartsWith(s, prefix) ==
    /\ Len(prefix) <= Len(s)
    /\ SubSeq(s, 1, Len(prefix)) = prefix

\* s.endswith(suffix)
EndsWith(s, suffix) ==
    /\ Len(suffix) <= Len(s)
    /\ SubSeq(s, Len(s) - Len(suffix) + 1, Len(s)) = suffix

RECURSIVE Replace(_, _, _)
\* s.replace(old, new), old not empty: leftmost non-overlapping occurrences
Replace(s, old, new) ==
    IF s = <<>> THEN <<>>
    ELSE IF StartsWith(s, old)
         THEN new \o Replace(SubSeq(s, Len(old) + 1, Len(s)), old, new)
         ELSE <<Head(s)>> \o Replace(Tail(s), old, new)

DriverMarker == <<"_", "d", "r", "i", "v", "e", "r">>
DotC         == <<".", "c">>
\* the rglob pattern "*_driver.c" matches the names with this suffix
DriverSuffix == DriverMarker \o DotC

(***************************************************************************)
(* Paths.                                                                  *)
(***************************************************************************)
\* p.name
Name(p) == p[Len(p)]

\* p.parent.name
ParentName(p) == p[Len(p) - 1]

\* p.parent
Parent(p) == SubSeq(p, 1, Len(p) - 1)

\* index of the last "." of a name, 0 when there is none
LastDot(name) ==
    LET dots == {i \in 1..Len(name) : name[i] = "."}
    IN  IF dots = {} THEN 0
        ELSE CHOOSE i \in dots : \A j \in dots : j <= i

\* p.stem: the name without its last suffix
Stem(p) ==
    LET name == Name(p)
        i == LastDot(name)
    IN  IF i <= 1 THEN name ELSE SubSeq(name, 1, i - 1)

RECURSIVE PathStr(_)
\* str(p): the components joined by "/"
PathStr(p) ==
    IF Len(p) = 1 THEN p[1]
    ELSE p[1] \o <<"/">> \o PathStr(Tail(p))

(***************************************************************************)
(* The files under the test folder that a run may find.                    *)
(***************************************************************************)
T_Driver       == <<"t">> \o DriverSuffix
T_DriverDriver == <<"t">> \o DriverMarker \o DriverSuffix
T_Subject      == <<"t">> \o DotC

FileUniverse ==
    { << <<"a">>, <<"x">>, T_Driver >>,
      << <<"b">>, <<"x">>, T_Driver >>,
      << <<"a">>, <<"w">>, T_DriverDriver >>,
      << <<"a">>, <<"x">>, T_Subject >> }

\* what the single-test collaborator may print on stdout
Stdouts ==
    { <<"e", "r", "r">>,
      <<"a", "<", "b", "&", "\"", ">">> }

\* exit statuses of the single-test collaborator (negative: killed by a signal)
ReturnCodes == {0, 1, -11}

\* exit statuses of make
MakeCodes == {0, 2}

(***************************************************************************)
(* Discovery: rglob enumerates the matching files directory by directory,  *)
(* in whatever order the filesystem lists each directory, and sorted()     *)
(* orders them by the key (p.parent.name, p.name).                         *)
(***************************************************************************)
\* the rglob pattern "*_driver.c"
Matches(p) == EndsWith(Name(p), DriverSuffix)

\* the sort key of main: (p.parent.name, p.name)
SortKey(p) == <<ParentName(p), Name(p)>>

\* tuple comparison ka < kb of two sort keys
KeyLess(ka, kb) ==
    \/ StrLess(ka[1], kb[1])
    \/ ka[1] = kb[1] /\ StrLess(ka[2], kb[2])

RECURSIVE InsertByKey(_, _)
\* sorted() is stable: p goes before the first element whose key is greater
InsertByKey(sorted, p) ==
    IF sorted = <<>> THEN <<p>>
    ELSE IF KeyLess(SortKey(p), SortKey(Head(sorted)))
         THEN <<p>> \o sorted
         ELSE <<Head(sorted)>> \o InsertByKey(Tail(sorted), p)

RECURSIVE SortedByKey(_)
\* sorted(drivers, key=lambda p: (p.parent.name, p.name))
SortedByKey(listing) ==
    IF listing = <<>> THEN <<>>
    ELSE InsertByKey(SortedByKey(SubSeq(listing, 1, Len(listing) - 1)),
                     listing[Len(listing)])

\* the sequences that list every element of the set s once
Listings(s) ==
    {l \in [1..Cardinality(s) -> s] : \A p \in s : \E i \in DOMAIN l : l[i] = p}

\* a recursive directory walk lists the files of one directory, and of one
\* subtree, next to each other
IsWalkOrder(l) ==
    \A i, j, k \in DOMAIN l :
        i < j /\ j < k =>
            /\ Parent(l[i]) = Parent(l[k]) => Parent(l[j]) = Parent(l[i])
            /\ l[i][1] = l[k][1] => l[j][1] = l[i][1]

\* the orders in which rglob may yield the matching files of a file set
WalkOrders(files) ==
    {l \in Listings({p \in files : Matches(p)}) : IsWalkOrder(l)}

(***************************************************************************)
(* run_test and fail_testcase as functions of the collaborator's result.   *)
(***************************************************************************)
PassText == <<"\t", ">", " ", "P", "a", "s", "s", "\n">>

\* the path reported for a driver: the driver's directory joined with
\* driver.stem.replace('_driver', '') + '.c'
ToAssemble(driver) ==
    LET new_name == Replace(Stem(driver), DriverMarker, <<>>) \o DotC
    IN  Parent(driver) \o <<new_name>>

\* the string '<testcase name="{name}">\n' + children + '</testcase>\n',
\* kept as its element name, its name attribute and its child elements
TestcaseXml(name, children) ==
    [tag |-> "testcase", name |-> name, children |-> children]

\* the string '<error type="error" message="{message}">{text}</error>\n'
ErrorXml(message, text) ==
    [tag |-> "error", type |-> "error", message |-> message, text |-> text]

\* init_message of run_test: (print message, name of the xml record)
InitMessage(driver) ==
    LET to_assemble == PathStr(ToAssemble(driver))
    IN  [print |-> to_assemble \o <<"\n">>, name |-> to_assemble]

\* the tuple fail_testcase puts on the log queue
FailTestcase(init_message, message) ==
    [print_msg   |-> init_message.print \o message,
     xml_message |-> TestcaseXml(init_message.name,
                                 <<ErrorXml(message, message)>>),
     test_passed |-> FALSE]

\* a test for a positive exit status only: returncode > 0 fails
ReturnCodeOk_NotPositive(returncode) == returncode <= 0

\* the test passes on this exit status of the collaborator
ReturnCodeOk(returncode) == returncode = 0

\* the CompletedProcess of subprocess.run for the driver at index i
CompletedProcess(i, returncode, out) ==
    [driver |-> i, returncode |-> returncode, stdout |-> out]

\* run_test: the tuple put on the log queue and the value returned
RunTest(driver, returncode, out) ==
    IF ~ReturnCodeOk(returncode)
    THEN [put |-> FailTestcase(InitMessage(driver), out), ret |-> FALSE]
    ELSE [put |-> [print_msg   |-> InitMessage(driver).print \o PassText,
                   xml_message |-> TestcaseXml(InitMessage(driver).name, <<>>),
                   test_passed |-> TRUE],
          ret |-> TRUE]

\* what main writes to the report besides the records
XmlDeclaration == [tag |-> "?xml", name |-> <<>>, children |-> <<>>]
TestsuiteOpen  == [tag |-> "testsuite", name |-> <<>>, children |-> <<>>]
TestsuiteClose == [tag |-> "/testsuite", name |-> <<>>, children |-> <<>>]

\* the methods class ProgressBar defines
ProgressBarMethods == {"__init__", "update", "update_with_value"}

(***************************************************************************)
(* Text files: what is written stays in the buffer of the file object      *)
(* until the file is flushed or closed.                                    *)
(***************************************************************************)
\* open(path, "w"): the file is truncated
OpenWrite(disk) == [disk |-> <<>>, buffer |-> <<>>]

\* open(path, "a")
OpenAppend(disk) == [disk |-> disk, buffer |-> <<>>]

\* f.write(s)
FileWrite(f, s) == [f EXCEPT !.buffer = Append(@, s)]

\* a file object that is left open: nothing reaches the disk
FileClose_NoFlush(f) == f

\* f.close(), also at the end of a with block: the buffer goes to the disk
FileClose(f) == [disk |-> f.disk \o f.buffer, buffer |-> <<>>]

(***************************************************************************)
(* class ProgressBar of scripts/progress_bar.py.                           *)
(***************************************************************************)
\* len("Running Tests []")
LabelLength == 16
\* the widest line the bar is drawn for
MaxColumns == 80

\* the widths "stty size" may report for the terminal
TerminalColumns == {40, 120}

\* the numbers of tests a bar may be made for
BarTotals == {0, 1, 2, 3, 7, 130}

Min(a, b) == IF a < b THEN a ELSE b
Max(a, b) == IF a > b THEN a ELSE b

\* round(num / den) for num >= 0 and den > 0: to the nearest integer, a tie
\* to the even one
Round(num, den) ==
    LET q == num \div den
        r == num % den
    IN  IF 2 * r < den THEN q
        ELSE IF 2 * r > den THEN q + 1
        ELSE IF q % 2 = 0 THEN q ELSE q + 1

\* round(count / total * length); the division raises ZeroDivisionError for
\* total = 0
Scaled(count, total, length) ==
    IF total = 0 THEN [raised |-> TRUE, value |-> 0]
    ELSE [raised |-> FALSE, value |-> Round(count * length, total)]

\* ProgressBar.__init__, lines 13-21: the fields of a new bar
NewProgressBar(total_tests, columns) ==
    [total_tests     |-> total_tests,
     passed          |-> 0,
     failed          |-> 0,
     max_line_length |-> Min(columns - LabelLength, MaxColumns - LabelLength)]

\* proportions computed without the test for total_tests == 0
Proportions_Unguarded(bar) ==
    LET p == Scaled(bar.passed, bar.total_tests, bar.max_line_length)
        f == Scaled(bar.failed, bar.total_tests, bar.max_line_length)
    IN  [raised |-> p.raised \/ f.raised, passed |-> p.value, failed |-> f.value]

\* update, lines 35-43: prop_passed and prop_failed before the minimum
Proportions(bar) ==
    IF bar.total_tests = 0
    THEN [raised |-> FALSE, passed |-> 0, failed |-> 0]
    ELSE LET p == Scaled(bar.passed, bar.total_tests, bar.max_line_length)
             f == Scaled(bar.failed, bar.total_tests, bar.max_line_length)
         IN  [raised |-> p.raised \/ f.raised,
              passed |-> p.value, failed |-> f.value]

\* a segment without the one-unit minimum
AtLeastOne_NoMinimum(prop, count) == IF count > 0 THEN prop ELSE 0

\* update, lines 46-47: max(prop, 1) if count > 0 else 0
AtLeastOne(prop, count) == IF count > 0 THEN Max(prop, 1) ELSE 0

\* the length of c * n for a one-character string c: nothing for n < 0
Times(n) == IF n < 0 THEN 0 ELSE n

\* update, lines 31-62: what is drawn, as the numbers of green, red and
\* blank units of the bar and the counts of the second line
Update(bar) ==
    LET prop == Proportions(bar)
        remaining_tests == bar.total_tests - (bar.passed + bar.failed)
        prop_passed == AtLeastOne(prop.passed, bar.passed)
        prop_failed == AtLeastOne(prop.failed, bar.failed)
        remaining == bar.max_line_length - prop_passed - prop_failed
    IN  [raised  |-> prop.raised,
         display |-> [green     |-> Times(prop_passed),
                      red       |-> Times(prop_failed),
                      blank     |-> Times(remaining),
                      passed    |-> bar.passed,
                      failed    |-> bar.failed,
                      remaining |-> remaining_tests]]

\* update_with_value, lines 64-68: the counters after one outcome
UpdateWithValue(bar, passed) ==
    IF passed THEN [bar EXCEPT !.passed = @ + 1]
    ELSE [bar EXCEPT !.failed = @ + 1]

(***************************************************************************)
(* The state of one run of scripts/test.py.                                *)
(***************************************************************************)
VARIABLES
    pc,             \* where the main thread is in main()
    multithreading, \* args.multithreading
    verbose,        \* args.verbose
    isatty,         \* sys.stdout.isatty()
    makeResult,     \* <<>>, or <<exit status of make>> once make has run
    xmlFile,        \* what has been written to J_UNIT_OUTPUT_FILE
    drivers,        \* the sorted list of discovered drivers
    log_queue,      \* queue.Queue of (print_msg, xml_message, test_passed)
    results,        \* the list of the values run_test returned
    progress_bar,   \* <<>> for None, or <<the ProgressBar's fields>>
    display,        \* <<>>, or <<what the progress bar drew last>>
    xmlBuffer,      \* what was written to the report and is not on disk yet
    fd,             \* JUnitXMLFile.fd: "none", "open" or "closed"
    written,        \* the strings given to JUnitXMLFile.write, in call order
    futures,        \* the futures of the executor, in submission order
    yielded,        \* the futures as_completed has handed to main
    executed,       \* how often the collaborator was started for each driver
    result,         \* <<>>, or <<what the latest subprocess.run returned>>
    stdout,         \* the lines print() wrote in verbose mode
    summary,        \* <<>>, or <<the counts of the test summary line>>
    exitStatus      \* <<>>, or <<exit status of the process>>

vars ==
    <<pc, multithreading, verbose, isatty, makeResult, xmlFile, drivers,
      log_queue, results, progress_bar, futures, yielded, executed, result,
      stdout, summary, exitStatus, display, xmlBuffer, fd, written>>

\* the variables only the main thread writes
mainVars ==
    <<pc, verbose, makeResult, xmlFile, drivers, results, progress_bar,
      yielded, stdout, summary, exitStatus, display, xmlBuffer, fd, written>>

\* the variables of a JUnitXMLFile, which main does not use
junitVars == <<fd, written>>

Init ==
    /\ pc = "make"
    /\ multithreading \in BOOLEAN
    /\ verbose \in BOOLEAN
    /\ isatty \in BOOLEAN
    /\ makeResult = <<>>
    /\ xmlFile = <<>>
    /\ drivers = <<>>
    /\ log_queue = <<>>
    /\ results = <<>>
    /\ progress_bar = <<>>
    /\ display = <<>>
    /\ xmlBuffer = <<>>
    /\ fd = "none"
    /\ written = <<>>
    /\ futures = <<>>
    /\ yielded = {}
    /\ executed = <<>>
    /\ result = <<>>
    /\ stdout = <<>>
    /\ summary = <<>>
    /\ exitStatus = <<>>

\* sum(results): the number of True values
RECURSIVE Sum(_)
Sum(bools) ==
    IF bools = <<>> THEN 0
    ELSE (IF Head(bools) THEN 1 ELSE 0) + Sum(Tail(bools))

\* main, lines 166-173: the output folder is recreated and make is run; its
\* exit status is not looked at
Make ==
    /\ pc = "make"
    /\ \E returncode \in MakeCodes : makeResult' = <<returncode>>
    /\ pc' = "open_report"
    /\ UNCHANGED <<junitVars, display, xmlBuffer>>
    /\ UNCHANGED <<multithreading, verbose, isatty, xmlFile, drivers, log_queue,
                   results, progress_bar, futures, yielded, executed, result, stdout,
                   summary, exitStatus>>

\* main, lines 175-177: the report is truncated and its head is written
OpenReport ==
    /\ pc = "open_report"
    /\ LET f == FileClose(FileWrite(FileWrite(OpenWrite(xmlFile),
                                               XmlDeclaration),
                                     TestsuiteOpen))
       IN  /\ xmlFile' = f.disk
           /\ xmlBuffer' = xmlBuffer \o f.buffer
    /\ pc' = "discover"
    /\ UNCHANGED <<junitVars, display>>
    /\ UNCHANGED <<multithreading, verbose, isatty, makeResult, drivers,
                   log_queue, results, progress_bar, futures, yielded, executed, result,
                   stdout, summary, exitStatus>>

\* main, lines 179-182: the drivers under the test folder, sorted
Discover ==
    /\ pc = "discover"
    /\ \E files \in SUBSET FileUniverse :
         /\ Cardinality({p \in files : Matches(p)}) <= MaxTests
         /\ \E listing \in WalkOrders(files) :
              drivers' = SortedByKey(listing)
    /\ executed' = [i \in DOMAIN drivers' |-> 0]
    /\ log_queue' = <<>>
    /\ results' = <<>>
    /\ pc' = "display"
    /\ UNCHANGED <<junitVars, display, xmlBuffer>>
    /\ UNCHANGED <<multithreading, verbose, isatty, makeResult, xmlFile,
                   progress_bar, futures, yielded, result, stdout, summary,
                   exitStatus>>

\* main, lines 184-191: on a terminal a progress bar is made, which reads
\* the terminal width and draws itself (ProgressBar.__init__, lines 13-29);
\* otherwise verbose mode is forced
SetupDisplay ==
    /\ pc = "display"
    /\ IF isatty
       THEN \E columns \in TerminalColumns :
              LET bar == NewProgressBar(Len(drivers), columns)
                  drawn == Update(bar)
              IN  /\ progress_bar' = <<bar>>
                  /\ IF drawn.raised
                     THEN /\ pc' = "raised"
                          /\ UNCHANGED display
                     ELSE /\ display' = <<drawn.display>>
                          /\ pc' = IF multithreading THEN "submit"
                                   ELSE "for_driver"
                  /\ UNCHANGED verbose
       ELSE /\ verbose' = TRUE
            /\ pc' = IF multithreading THEN "submit" ELSE "for_driver"
            /\ UNCHANGED <<progress_bar, display>>
    /\ UNCHANGED <<junitVars, xmlBuffer>>
    /\ UNCHANGED <<multithreading, isatty, makeResult, xmlFile, drivers,
                   log_queue, results, futures, yielded, executed, result,
                   stdout, summary, exitStatus>>

(***************************************************************************)
(* Sequential mode.                                                        *)
(***************************************************************************)
\* a loop that takes the drivers from last to first
NextDriver_Reversed(done, total) == total - done

\* for driver in drivers: the index of the driver of the next turn, after
\* `done` turns
NextDriver(done, total) == done + 1

\* main, lines 201-203: the next driver is run in the main thread (run_test
\* puts its tuple on the queue), or the loop ends
ForDriver ==
    /\ pc = "for_driver"
    /\ IF Len(results) < Len(drivers)
       THEN LET i == NextDriver(Len(results), Len(drivers))
            IN  \E returncode \in ReturnCodes, out \in Stdouts :
                  LET r == RunTest(drivers[i], returncode, out)
                  IN  /\ executed' = [executed EXCEPT ![i] = @ + 1]
                      /\ result' = <<CompletedProcess(i, returncode, out)>>
                      /\ log_queue' = Append(log_queue, r.put)
                      /\ results' = Append(results, r.ret)
                      /\ pc' = "empty_log_queue"
       ELSE /\ pc' = "summary"
            /\ UNCHANGED <<executed, result, log_queue, results>>
    /\ UNCHANGED <<junitVars, display, xmlBuffer>>
    /\ UNCHANGED <<multithreading, verbose, isatty, makeResult, xmlFile,
                   drivers, progress_bar, futures, yielded, stdout, summary,
                   exitStatus>>

(***************************************************************************)
(* empty_log_queue, one turn of its loop per step (the workers may put     *)
(* tuples on the queue between two turns).                                 *)
(***************************************************************************)
\* the method of the progress bar that empty_log_queue calls for an outcome
CalledMethod(test_passed) ==
    IF test_passed THEN "test_passed" ELSE "test_failed"

\* a loop test that is off by one: log_queue.qsize() <= 1
QueueEmpty_OffByOne(q) == Len(q) <= 1

\* log_queue.empty()
QueueEmpty(q) == q = <<>>

EmptyLogQueue ==
    /\ pc = "empty_log_queue"
    /\ IF QueueEmpty(log_queue)
       THEN \* the loop ends: back to the caller's loop
            /\ pc' = IF multithreading THEN "as_completed" ELSE "for_driver"
            /\ UNCHANGED <<log_queue, xmlFile, xmlBuffer, stdout>>
       ELSE LET msg == Head(log_queue)
            IN  /\ log_queue' = Tail(log_queue)
                /\ LET f == FileClose(FileWrite(OpenAppend(xmlFile),
                                                 msg.xml_message))
                   IN  /\ xmlFile' = f.disk
                       /\ xmlBuffer' = xmlBuffer \o f.buffer
                /\ IF verbose
                   THEN /\ stdout' = Append(stdout, msg.print_msg)
                        /\ pc' = pc
                   ELSE IF progress_bar = <<>>
                   THEN /\ pc' = pc
                        /\ UNCHANGED stdout
                   ELSE \* progress_bar.test_passed() or .test_failed(): the
                        \* class has no such method, the call raises
                        \* AttributeError
                        /\ CalledMethod(msg.test_passed) \notin ProgressBarMethods
                        /\ pc' = "raised"
                        /\ UNCHANGED stdout
    /\ UNCHANGED <<junitVars, display>>
    /\ UNCHANGED <<multithreading, verbose, isatty, makeResult, drivers,
                   results, progress_bar, futures, yielded, executed, result, summary,
                   exitStatus>>

(***************************************************************************)
(* Concurrent mode.                                                        *)
(***************************************************************************)
\* main, lines 193-194: one executor.submit per step, then the loop over
\* as_completed starts
Submit ==
    /\ pc = "submit"
    /\ IF Len(futures) < Len(drivers)
       THEN /\ futures' = Append(futures, [state |-> "pending", ret |-> <<>>])
            /\ pc' = pc
       ELSE /\ pc' = "as_completed"
            /\ UNCHANGED futures
    /\ UNCHANGED <<junitVars, display, xmlBuffer>>
    /\ UNCHANGED <<multithreading, verbose, isatty, makeResult, xmlFile,
                   drivers, log_queue, results, progress_bar, yielded, executed, result,
                   stdout, summary, exitStatus>>

\* a worker thread takes a pending work item and calls run_test, which starts
\* the collaborator (lines 76-90). ThreadPoolExecutor() has
\* min(32, cpu_count + 4) worker threads, more than MaxTests, so that no work
\* item waits for a free thread
WorkerStart(i) ==
    /\ i \in DOMAIN futures
    /\ futures[i].state = "pending"
    /\ futures' = [futures EXCEPT ![i].state = "running"]
    /\ executed' = [executed EXCEPT ![i] = @ + 1]
    /\ UNCHANGED <<mainVars, multithreading, isatty, log_queue, result>>

\* a run_test that appends its record to the report itself
WorkerPut_WritesReport(i) ==
    /\ i \in DOMAIN futures
    /\ futures[i].state = "running"
    /\ \E returncode \in ReturnCodes, out \in Stdouts :
         LET r == RunTest(drivers[i], returncode, out)
         IN  /\ result' = <<CompletedProcess(i, returncode, out)>>
             /\ xmlFile' = Append(xmlFile, r.put.xml_message)
             /\ futures' = [futures EXCEPT ![i] =
                               [state |-> "returning", ret |-> <<r.ret>>]]
    /\ UNCHANGED <<junitVars, display, xmlBuffer>>
    /\ UNCHANGED <<pc, verbose, makeResult, drivers, results, progress_bar,
                   yielded, stdout, summary, exitStatus, multithreading, isatty,
                   executed, log_queue>>

\* the collaborator has exited: run_test puts its tuple on the queue (lines
\* 91-106)
WorkerPut(i) ==
    /\ i \in DOMAIN futures
    /\ futures[i].state = "running"
    /\ \E returncode \in ReturnCodes, out \in Stdouts :
         LET r == RunTest(drivers[i], returncode, out)
         IN  /\ result' = <<CompletedProcess(i, returncode, out)>>
             /\ log_queue' = Append(log_queue, r.put)
             /\ futures' = [futures EXCEPT ![i] =
                               [state |-> "returning", ret |-> <<r.ret>>]]
    /\ UNCHANGED <<mainVars, multithreading, isatty, executed>>

\* run_test returns (lines 97, 107): the future is finished
WorkerReturn(i) ==
    /\ i \in DOMAIN futures
    /\ futures[i].state = "returning"
    /\ futures' = [futures EXCEPT ![i].state = "finished"]
    /\ UNCHANGED <<mainVars, multithreading, isatty, log_queue, executed, result>>

\* main, lines 196-197: as_completed hands over a finished future and its
\* result is appended, or every future was handed over and the loop and the
\* executor's with block end
AsCompleted ==
    /\ pc = "as_completed"
    /\ IF yielded = DOMAIN futures
       THEN /\ pc' = "summary"
            /\ UNCHANGED <<yielded, results>>
       ELSE \E i \in DOMAIN futures \ yielded :
              /\ futures[i].state = "finished"
              /\ yielded' = yielded \cup {i}
              /\ results' = Append(results, futures[i].ret[1])
              /\ pc' = "empty_log_queue"
    /\ UNCHANGED <<junitVars, display, xmlBuffer>>
    /\ UNCHANGED <<multithreading, verbose, isatty, makeResult, xmlFile,
                   drivers, log_queue, progress_bar, futures, executed, result, stdout,
                   summary, exitStatus>>

(***************************************************************************)
(* The end of the run.                                                     *)
(***************************************************************************)
\* main, lines 206-213: the totals, the closing tag and the summary line;
\* main returns and the process exits with status 0
Summary ==
    /\ pc = "summary"
    /\ LET passing == Sum(results)
           total == Len(drivers)
           f == FileClose(FileWrite(OpenAppend(xmlFile), TestsuiteClose))
       IN  /\ xmlFile' = f.disk
           /\ xmlBuffer' = xmlBuffer \o f.buffer
           /\ summary' = <<[passed |-> passing, failed |-> total - passing]>>
    /\ exitStatus' = <<0>>
    /\ pc' = "exited"
    /\ UNCHANGED <<junitVars, display>>
    /\ UNCHANGED <<multithreading, verbose, isatty, makeResult, drivers,
                   log_queue, results, progress_bar, futures, yielded, executed, result,
                   stdout>>

\* an exception leaves main: in concurrent mode the executor's with block
\* first waits for every work item (lines 192, 216-222); the process exits
\* with status 1
Raised ==
    /\ pc = "raised"
    /\ multithreading =>
         \A i \in DOMAIN futures : futures[i].state = "finished"
    /\ exitStatus' = <<1>>
    /\ pc' = "exited"
    /\ UNCHANGED <<junitVars, display, xmlBuffer>>
    /\ UNCHANGED <<multithreading, verbose, isatty, makeResult, xmlFile,
                   drivers, log_queue, results, progress_bar, futures, yielded,
                   executed, result, stdout, summary>>

Next ==
    \/ Make
    \/ OpenReport
    \/ Discover
    \/ SetupDisplay
    \/ ForDriver
    \/ EmptyLogQueue
    \/ Submit
    \/ \E i \in 1..Len(drivers) : WorkerStart(i)
    \/ \E i \in 1..Len(drivers) : WorkerPut(i)
    \/ \E i \in 1..Len(drivers) : WorkerReturn(i)
    \/ AsCompleted
    \/ Summary
    \/ Raised

Spec == Init /\ [][Next]_vars

(***************************************************************************)
(* A ProgressBar on its own: made for some number of tests on some         *)
(* terminal, then told one outcome after the other.                        *)
(***************************************************************************)
\* the variables a ProgressBar does not touch
barFrame ==
    <<pc, multithreading, verbose, isatty, makeResult, xmlFile, drivers,
      log_queue, results, futures, yielded, executed, result, stdout, summary,
      exitStatus, xmlBuffer, fd, written>>

InitBar ==
    /\ pc = "bar"
    /\ multithreading = FALSE
    /\ verbose = FALSE
    /\ isatty = TRUE
    /\ makeResult = <<>>
    /\ xmlFile = <<>>
    /\ drivers = <<>>
    /\ log_queue = <<>>
    /\ results = <<>>
    /\ progress_bar = <<>>
    /\ display = <<>>
    /\ xmlBuffer = <<>>
    /\ fd = "none"
    /\ written = <<>>
    /\ futures = <<>>
    /\ yielded = {}
    /\ executed = <<>>
    /\ result = <<>>
    /\ stdout = <<>>
    /\ summary = <<>>
    /\ exitStatus = <<>>

\* ProgressBar(total_tests), lines 12-29: the fields are set and the bar is
\* drawn
BarNew ==
    /\ pc = "bar"
    /\ progress_bar = <<>>
    /\ \E total_tests \in BarTotals, columns \in TerminalColumns :
         LET bar == NewProgressBar(total_tests, columns)
             drawn == Update(bar)
         IN  /\ ~drawn.raised
             /\ progress_bar' = <<bar>>
             /\ display' = <<drawn.display>>
    /\ UNCHANGED barFrame

\* update_with_value(passed), lines 64-69, for an outcome of a test that was
\* still remaining: a counter is incremented and the bar is drawn
BarUpdateWithValue ==
    /\ pc = "bar"
    /\ progress_bar # <<>>
    /\ progress_bar[1].passed + progress_bar[1].failed
           < progress_bar[1].total_tests
    /\ \E passed \in BOOLEAN :
         LET bar == UpdateWithValue(progress_bar[1], passed)
             drawn == Update(bar)
         IN  /\ ~drawn.raised
             /\ progress_bar' = <<bar>>
             /\ display' = <<drawn.display>>
    /\ UNCHANGED barFrame

NextBar ==
    \/ BarNew
    \/ BarUpdateWithValue

SpecBar == InitBar /\ [][NextBar]_vars

(***************************************************************************)
(* A JUnitXMLFile of scripts/junit_xml_file.py used in a with block.       *)
(* xmlFile is the file at self.path, xmlBuffer the buffer of self.fd.      *)
(***************************************************************************)
\* the variables a JUnitXMLFile does not touch
junitFrame ==
    <<multithreading, verbose, isatty, makeResult, drivers, log_queue,
      results, progress_bar, display, futures, yielded, executed, result,
      stdout, summary, exitStatus>>

\* the strings the body of the with block may write
WriteStrings ==
    { TestcaseXml(<<"t">>, <<>>),
      TestcaseXml(<<"w">>, <<>>),
      TestcaseXml(<<"t">>, <<ErrorXml(<<"e">>, <<"e">>)>>) }

\* what the file at the path may hold before the with block
OldReports == { <<>>, <<XmlDeclaration, TestsuiteOpen, TestsuiteClose>> }

InitJUnit ==
    /\ pc = "junit"
    /\ xmlFile \in OldReports
    /\ multithreading = FALSE
    /\ verbose = FALSE
    /\ isatty = FALSE
    /\ makeResult = <<>>
    /\ drivers = <<>>
    /\ log_queue = <<>>
    /\ results = <<>>
    /\ progress_bar = <<>>
    /\ display = <<>>
    /\ xmlBuffer = <<>>
    /\ fd = "none"
    /\ written = <<>>
    /\ futures = <<>>
    /\ yielded = {}
    /\ executed = <<>>
    /\ result = <<>>
    /\ stdout = <<>>
    /\ summary = <<>>
    /\ exitStatus = <<>>

\* __enter__, lines 6-11
JUnitEnter ==
    /\ pc = "junit"
    /\ LET f == FileWrite(FileWrite(OpenWrite(xmlFile), XmlDeclaration),
                          TestsuiteOpen)
       IN  /\ xmlFile' = f.disk
           /\ xmlBuffer' = f.buffer
    /\ fd' = "open"
    /\ pc' = "junit_body"
    /\ UNCHANGED <<written, junitFrame>>

\* write, lines 13-14: the string goes to the buffer of fd
JUnitWrite ==
    /\ pc = "junit_body"
    /\ Len(written) < MaxWrites
    /\ \E s \in WriteStrings :
         LET f == FileWrite([disk |-> xmlFile, buffer |-> xmlBuffer], s)
         IN  /\ xmlFile' = f.disk
             /\ xmlBuffer' = f.buffer
             /\ written' = Append(written, s)
    /\ UNCHANGED <<pc, fd, junitFrame>>

\* the buffer of fd is full and is written out
JUnitBufferFull ==
    /\ fd = "open"
    /\ xmlBuffer # <<>>
    /\ xmlFile' = xmlFile \o xmlBuffer
    /\ xmlBuffer' = <<>>
    /\ UNCHANGED <<pc, fd, written, junitFrame>>

\* the body of the with block raises an exception
JUnitBodyRaises ==
    /\ pc = "junit_body"
    /\ pc' = "junit_raising"
    /\ UNCHANGED <<xmlFile, xmlBuffer, fd, written, junitFrame>>

\* the closing tag is left out when the body raised
JUnitExit_OnlyOnSuccess ==
    /\ pc \in {"junit_body", "junit_raising"}
    /\ LET open == [disk |-> xmlFile, buffer |-> xmlBuffer]
           f == FileClose(IF pc = "junit_raising" THEN open
                          ELSE FileWrite(open, TestsuiteClose))
       IN  /\ xmlFile' = f.disk
           /\ xmlBuffer' = f.buffer
    /\ fd' = "closed"
    /\ pc' = IF pc = "junit_raising" THEN "junit_left_raising" ELSE "junit_left"
    /\ UNCHANGED <<written, junitFrame>>

\* __exit__, lines 16-18, at the end of the body or with its exception; the
\* exception, if any, goes on
JUnitExit ==
    /\ pc \in {"junit_body", "junit_raising"}
    /\ LET f == FileClose(FileWrite([disk |-> xmlFile, buffer |-> xmlBuffer],
                                    TestsuiteClose))
       IN  /\ xmlFile' = f.disk
           /\ xmlBuffer' = f.buffer
    /\ fd' = "closed"
    /\ pc' = IF pc = "junit_raising" THEN "junit_left_raising" ELSE "junit_left"
    /\ UNCHANGED <<written, junitFrame>>

NextJUnit ==
    \/ JUnitEnter
    \/ JUnitWrite
    \/ JUnitBufferFull
    \/ JUnitBodyRaises
    \/ JUnitExit

SpecJUnit == InitJUnit /\ [][NextJUnit]_vars

(***************************************************************************)
(* Properties of the run.                                                  *)
(***************************************************************************)
IsTestcase(chunk) == chunk.tag = "testcase"
IsPassRecord(chunk) == chunk.tag = "testcase" /\ chunk.children = <<>>
IsFailRecord(chunk) == chunk.tag = "testcase" /\ chunk.children # <<>>
IsOpen(chunk) == chunk = TestsuiteOpen
IsClose(chunk) == chunk = TestsuiteClose

\* the testcase records of the report, in file order
Records == SelectSeq(xmlFile, IsTestcase)

\* the name under which the driver at index i is reported
TestName(i) == PathStr(ToAssemble(drivers[i]))

Exited == pc = "exited"
CompletedNormally == pc = "exited" /\ exitStatus = <<0>>
Discovered == pc \notin {"make", "open_report", "discover"}

\* C1: when a run completes normally, in either mode and for every outcome
\* of the tests, the passed and failed counts of the summary add up to the
\* number N of discovered drivers, they are the numbers of passing and of
\* failing records, and the report holds exactly N testcase records.
C1_CountsMatchDiscovery ==
    CompletedNormally =>
        /\ summary[1].passed + summary[1].failed = Len(drivers)
        /\ Len(Records) = Len(drivers)
        /\ summary[1].passed = Len(SelectSeq(xmlFile, IsPassRecord))
        /\ summary[1].failed = Len(SelectSeq(xmlFile, IsFailRecord))

\* a concurrent run of two drivers, one passed and one failed, has completed
C1_Witness ==
    /\ CompletedNormally
    /\ multithreading
    /\ Len(drivers) = 2
    /\ summary[1].passed = 1
    /\ summary[1].failed = 1

\* C2: on every exit path of the run the report has its root opened exactly
\* once and closed exactly once, the closing tag being the last thing
\* written.
C2_ReportClosedOnEveryExit ==
    Exited =>
        /\ Len(SelectSeq(xmlFile, IsOpen)) = 1
        /\ Len(SelectSeq(xmlFile, IsClose)) = 1
        /\ xmlFile[Len(xmlFile)] = TestsuiteClose

\* C3: when a concurrent run has ended, every discovered driver was executed
\* exactly once and the report holds one record per discovered test, the
\* names of the records being the names of the discovered tests.
C3_ConcurrentReportCoversDiscovery ==
    (multithreading /\ Exited) =>
        /\ \A i \in DOMAIN drivers : executed[i] = 1
        /\ Len(Records) = Len(drivers)
        /\ \A i \in DOMAIN drivers :
             Cardinality({k \in DOMAIN Records : Records[k].name = TestName(i)}) = 1

\* C4: in sequential mode the records of the report and the verbose log
\* lines are in discovery order, and a test is started only when every test
\* before it was run once and is fully reported (its record written, and in
\* verbose mode its log line printed).
C4_SequentialOrder ==
    ~multithreading =>
        /\ \A k \in DOMAIN Records : Records[k].name = TestName(k)
        /\ \A k \in DOMAIN stdout :
             StartsWith(stdout[k], TestName(k) \o <<"\n">>)
        /\ \A i \in DOMAIN executed :
             executed[i] > 0 =>
                \A j \in 1..(i - 1) :
                    /\ executed[j] = 1
                    /\ j <= Len(Records)
                    /\ verbose => j <= Len(stdout)

\* a sequential verbose run of two drivers has ended with both reported
C4_Witness ==
    /\ ~multithreading
    /\ Exited
    /\ verbose
    /\ Len(Records) = 2
    /\ Len(stdout) = 2

\* a step of a worker thread: the state of a work item changes
WorkerStep ==
    /\ DOMAIN futures' = DOMAIN futures
    /\ futures' # futures

\* C5: in concurrent mode a step of a worker thread changes neither the
\* report nor the progress counters nor the log, it can only put one tuple
\* on the queue; the report gets a record only in a step of the consumer
\* that takes the tuple at the head of the queue and appends its record, and
\* every tuple taken from the queue has its record appended in that step.
C5_SingleConsumer ==
    [][multithreading =>
         /\ WorkerStep =>
              /\ UNCHANGED <<xmlFile, progress_bar, stdout, results, summary>>
              /\ \/ log_queue' = log_queue
                 \/ /\ Len(log_queue') = Len(log_queue) + 1
                    /\ SubSeq(log_queue', 1, Len(log_queue)) = log_queue
         /\ (Records' # Records \/ Len(log_queue') < Len(log_queue)) =>
              /\ futures' = futures
              /\ pc = "empty_log_queue"
              /\ log_queue # <<>>
              /\ log_queue' = Tail(log_queue)
              /\ xmlFile' = Append(xmlFile, Head(log_queue).xml_message)
      ]_vars

\* the consumer has written a record while another tuple waits on the queue
\* and the worker that put it has not returned yet
C5_Witness ==
    /\ multithreading
    /\ Len(Records) = 1
    /\ Len(log_queue) = 1
    /\ \E i \in DOMAIN futures : futures[i].state = "returning"

\* C6: once make has exited with a nonzero status no test is executed, no
\* testcase record is written, and the process exits with a nonzero status.
C6_BuildFailureAborts ==
    (makeResult # <<>> /\ makeResult[1] # 0) =>
        /\ \A i \in DOMAIN executed : executed[i] = 0
        /\ Records = <<>>
        /\ Exited => exitStatus[1] # 0

\* the set of the elements of a sequence
Range(seq) == {seq[i] : i \in DOMAIN seq}

\* C7: no two discovered paths have equal sort keys, and the sorted list of
\* drivers is the same for every order in which the directory walk may list
\* the discovered files.
C7_DiscoveryOrderIndependent ==
    Discovered =>
        /\ \A i, j \in DOMAIN drivers :
             i # j => SortKey(drivers[i]) # SortKey(drivers[j])
        /\ \A listing \in WalkOrders(Range(drivers)) :
             SortedByKey(listing) = drivers

\* C8: a run in which a test failed still ends with exit status 0, with
\* every discovered test executed and reported.
C8_TestFailureNeverAborts ==
    (Exited /\ \E k \in DOMAIN results : ~results[k]) =>
        /\ exitStatus = <<0>>
        /\ \A i \in DOMAIN drivers : executed[i] = 1
        /\ Len(Records) = Len(drivers)

\* the tuple that a step has put on the queue
Put == log_queue'[Len(log_queue')]

ReservedInAttribute == {"<", "&", "\""}
\* the characters that start markup in element content
ReservedInContent == {"<", "&"}

\* C10: no record of the report has a raw reserved character in the message
\* attribute or in the body of its error element.
C10_DiagnosticEscaped ==
    \A k \in DOMAIN Records :
        \A e \in DOMAIN Records[k].children :
            /\ \A n \in DOMAIN Records[k].children[e].message :
                 Records[k].children[e].message[n] \notin ReservedInAttribute
            /\ \A n \in DOMAIN Records[k].children[e].text :
                 Records[k].children[e].text[n] \notin ReservedInContent

\* the counters of the progress bar
BarPassed == progress_bar[1].passed
BarFailed == progress_bar[1].failed
BarTotal == progress_bar[1].total_tests
BarLength == progress_bar[1].max_line_length

\* C11: while there is a progress bar its counters satisfy passed + failed
\* <= total and the remaining count it shows is not negative; when the run
\* has completed, passed + failed = total and the remaining count shown is 0.
C11_CountersReachTotal ==
    (progress_bar # <<>> /\ display # <<>>) =>
        /\ BarPassed + BarFailed <= BarTotal
        /\ display[1].remaining >= 0
        /\ CompletedNormally =>
             /\ BarPassed + BarFailed = BarTotal
             /\ display[1].remaining = 0

\* C12: a run that discovers no driver never raises; its progress bar, if it
\* has one, shows an empty bar of full width and the counts 0, 0, 0; it ends
\* with exit status 0, the summary 0 passed and 0 failed, and a report that
\* is the head, the root opening tag and the root closing tag.
C12_EmptyRun ==
    (Discovered /\ Len(drivers) = 0) =>
        /\ pc # "raised"
        /\ (progress_bar # <<>>) =>
             display = <<[green |-> 0, red |-> 0, blank |-> BarLength,
                          passed |-> 0, failed |-> 0, remaining |-> 0]>>
        /\ (pc # "display" /\ isatty) => progress_bar # <<>>
        /\ Exited =>
             /\ exitStatus = <<0>>
             /\ summary = <<[passed |-> 0, failed |-> 0]>>
             /\ xmlFile = <<XmlDeclaration, TestsuiteOpen, TestsuiteClose>>

\* a concurrent run on a terminal has found no driver and has ended
C12_Witness ==
    /\ Exited
    /\ Discovered
    /\ Len(drivers) = 0
    /\ multithreading
    /\ progress_bar # <<>>
    /\ summary # <<>>

\* C13: with a progress bar and verbose off, the step that takes an outcome
\* from the queue increments the passed counter by one if the outcome passed
\* and the failed counter by one otherwise, leaves the other fields of the
\* bar as they are, draws the bar again, and stays in the loop of
\* empty_log_queue.
C13_OutcomeIncrementsOneCounter ==
    [][(/\ progress_bar # <<>>
        /\ ~verbose
        /\ Len(log_queue') < Len(log_queue)) =>
            /\ progress_bar' =
                 <<UpdateWithValue(progress_bar[1], Head(log_queue).test_passed)>>
            /\ display' = <<Update(progress_bar'[1]).display>>
            /\ pc' = "empty_log_queue"
      ]_vars

\* the number of tuples that were put on the queue so far
Puts ==
    IF multithreading
    THEN Cardinality({i \in DOMAIN futures :
                         futures[i].state \in {"returning", "finished"}})
    ELSE Len(results)

\* C14: in every state of the run nothing written to the report is held in
\* a buffer, and the report on disk holds one record for every tuple that
\* was taken from the queue so far.
C14_RecordsOnDisk ==
    /\ xmlBuffer = <<>>
    /\ Len(Records) = Puts - Len(log_queue)

\* the run is being aborted by an exception and the record of the outcome
\* taken last is on disk
C14_Witness ==
    /\ pc = "raised"
    /\ Len(Records) = 1
    /\ Puts = 1

\* C15: while the file of a JUnitXMLFile is open, what was written to it is
\* the head, the root opening tag and the strings written, in call order;
\* once the with block is left, normally or with an exception, the file is
\* closed and holds exactly that followed by one root closing tag.
C15_ScopedReport ==
    /\ fd = "open" =>
         xmlFile \o xmlBuffer = <<XmlDeclaration, TestsuiteOpen>> \o written
    /\ pc \in {"junit_left", "junit_left_raising"} =>
         /\ fd = "closed"
         /\ xmlBuffer = <<>>
         /\ xmlFile = <<XmlDeclaration, TestsuiteOpen>> \o written
                          \o <<TestsuiteClose>>

\* a with block that wrote two strings was left with an exception
C15_Witness ==
    /\ pc = "junit_left_raising"
    /\ Len(written) = 2
    /\ fd = "closed"

\* C16: in everything the bar draws, the green segment has at least one
\* unit if passed > 0 and none if passed = 0, and the red segment at least
\* one unit if failed > 0 and none if failed = 0.
C16_SegmentsVisible ==
    display # <<>> =>
        /\ display[1].passed > 0 => display[1].green >= 1
        /\ display[1].passed = 0 => display[1].green = 0
        /\ display[1].failed > 0 => display[1].red >= 1
        /\ display[1].failed = 0 => display[1].red = 0

\* one passed test of 130 rounds to no unit and is drawn with one
C16_Witness ==
    /\ pc = "bar"
    /\ display # <<>>
    /\ BarTotal = 130
    /\ display[1].passed = 1
    /\ display[1].green = 1

\* the name the claim gives the test of a driver: the stem without its
\* trailing '_driver', with '.c', in the driver's directory
ExpectedName(driver) ==
    LET stem == Stem(driver)
    IN  PathStr(Parent(driver)
                \o <<SubSeq(stem, 1, Len(stem) - Len(DriverMarker)) \o DotC>>)

\* C17: every record of the report and every tuple on the queue names its
\* test as the driver's file name without the trailing '_driver' of the stem.
C17_OnlyTrailingMarkerRemoved ==
    /\ \A k \in DOMAIN Records :
         \E i \in DOMAIN drivers : Records[k].name = ExpectedName(drivers[i])
    /\ \A k \in DOMAIN log_queue :
         \E i \in DOMAIN drivers :
           log_queue[k].xml_message.name = ExpectedName(drivers[i])

\* C18: in concurrent mode every future that as_completed has handed over is
\* finished and its tuple was put on the queue; when the loop over the
\* futures has ended the queue is empty and every test has its record; and
\* once the root closing tag is in the report it is the last thing in it,
\* with the records of all tests before it.
C18_CloseAfterAllRecords ==
    multithreading =>
        /\ \A i \in yielded : futures[i].state = "finished"
        /\ Len(Records) + Len(log_queue) >= Cardinality(yielded)
        /\ pc = "summary" =>
             /\ log_queue = <<>>
             /\ Len(Records) = Len(drivers)
        /\ (\E k \in DOMAIN xmlFile : xmlFile[k] = TestsuiteClose) =>
             /\ xmlFile[Len(xmlFile)] = TestsuiteClose
             /\ Len(SelectSeq(xmlFile, IsClose)) = 1
             /\ Len(Records) = Len(drivers)
             /\ log_queue = <<>>

\* a concurrent run of two tests has completed with the record of the second
\* driver written before the record of the first
C18_Witness ==
    /\ multithreading
    /\ CompletedNormally
    /\ Len(Records) = 2
    /\ Records[1].name = TestName(2)
    /\ xmlFile[Len(xmlFile)] = TestsuiteClose

\* C19: in everything the bar draws, the green and the red units together
\* are no more than max_line_length, and green, red and blank units add up
\* to max_line_length.
C19_BarWidthConstant ==
    display # <<>> =>
        /\ display[1].green + display[1].red <= BarLength
        /\ display[1].green + display[1].red + display[1].blank = BarLength

====
